---- MODULE Spec2Model ----
(***************************************************************************)
(* State-machine model of cloudify/workflows/local.py: the node-instance   *)
(* store (Storage, InMemoryStorage, FileStorage) with its per-instance     *)
(* reentrant locks and optimistic version check, and the Environment that  *)
(* validates the plan's operation mappings and the workflow parameters.    *)
(***************************************************************************)
EXTENDS Integers, Sequences, FiniteSets, TLC

\* Number of worker threads calling the store concurrently.
NumThreads == 2
\* Number of store calls the threads issue, in total, before the scenario of
\* same-version updates may begin.
MaxCalls == 2

Threads == 1..NumThreads
NoThread == 0

(***************************************************************************)
(* Python values.  Every value is a record [t, v] whose tag t is the       *)
(* Python type, so that None, strings, lists and tuples stay distinct.     *)
(***************************************************************************)
NoState == [t |-> "None", v |-> ""]
NoProps == [t |-> "None", v |-> {}]
PyStr(s) == [t |-> "str", v |-> s]
PyInt(s) == [t |-> "int", v |-> s]
PyList(s) == [t |-> "list", v |-> s]
PyTuple(s) == [t |-> "tuple", v |-> s]
Item(k, x) == [k |-> k, v |-> x]
Dict(items) == [t |-> "dict", v |-> items]

RP_ip == Dict({Item(PyStr("ip"), PyStr("10.0.0.1"))})
RP_ports == Dict({Item(PyStr("ports"), PyList("80,443"))})
RP_tuple == Dict({Item(PyStr("ports"), PyTuple("80,443"))})
RP_intkey == Dict({Item(PyInt("1"), PyStr("a"))})
Started == PyStr("started")
Deleted == PyStr("deleted")

InstanceIds == {"i1", "i2"}
UnknownId == "nope"
NodeOf == [i \in InstanceIds |-> IF i = "i1" THEN "web_server" ELSE "db"]
NodeIds == {"web_server", "db"}
Backends == {"memory", "file"}

\* A Node of the plan.
PlanNode(n) == [id |-> n, properties |-> PyStr("plan")]

\* A NodeInstance of the plan after Environment._prepare_nodes_and_instances
\* (node_id copied from name) and Storage.__init__ (version 0).
PlanInstance(i) ==
    [id |-> i, node_id |-> NodeOf[i], state |-> NoState,
     runtime_properties |-> NoProps, version |-> 0]

NoInstance ==
    [id |-> "", node_id |-> "", state |-> NoState,
     runtime_properties |-> NoProps, version |-> 0]

(***************************************************************************)
(* json.dumps / json.loads.  A text is [text |-> the JSON value]: object   *)
(* keys become strings and tuples become arrays; loads gives back what the *)
(* text holds.                                                             *)
(***************************************************************************)
JsonKey(k) == [t |-> "str", v |-> k.v]
JsonValue(x) == IF x.t = "tuple" THEN [t |-> "list", v |-> x.v] ELSE x
JsonProps(rp) ==
    IF rp.t = "None" THEN rp
    ELSE [t |-> "dict", v |-> {Item(JsonKey(i.k), JsonValue(i.v)) : i \in rp.v}]
json_dumps(node_instance) ==
    [text |-> [node_instance EXCEPT
                 !.runtime_properties = JsonProps(node_instance.runtime_properties)]]
json_loads(s) == s.text

(***************************************************************************)
(* threading.RLock: owner and recursion count.                             *)
(***************************************************************************)
RLock == [owner |-> NoThread, count |-> 0]
CanAcquireAlways(lock, t) == TRUE
CanAcquireNonReentrant(lock, t) == lock.owner = NoThread
CanAcquire(lock, t) == lock.owner \in {NoThread, t}
AcquireNoOwner(lock, t) == [owner |-> NoThread, count |-> lock.count + 1]
Acquire(lock, t) == [owner |-> t, count |-> lock.count + 1]
ReleaseKeepsOwner(lock) == lock
Release(lock) ==
    IF lock.count = 1 THEN [owner |-> NoThread, count |-> 0]
    ELSE [lock EXCEPT !.count = @ - 1]

(***************************************************************************)
(* Storage.update_node_instance, lines 264-276, on one instance value.     *)
(***************************************************************************)
VersionConflictOnlyNewer(instance, version, state) ==
    state = NoState /\ version > instance.version
VersionConflictIgnoresState(instance, version, state) ==
    version # instance.version
VersionConflict(instance, version, state) ==
    state = NoState /\ version # instance.version

IncrementVersionDropped(instance) == instance
IncrementVersion(instance) == [instance EXCEPT !.version = @ + 1]

SetRuntimeProperties(instance, runtime_properties) ==
    IF runtime_properties # NoProps
    THEN [instance EXCEPT !.runtime_properties = runtime_properties]
    ELSE instance

SetState(instance, state) ==
    IF state # NoState THEN [instance EXCEPT !.state = state] ELSE instance

\* Expected versions a caller passes to update_node_instance: the version of a
\* new store and the version after its first update.
VersionArgs == {0, 1}

(***************************************************************************)
(* Object references.  A handle is either the live object the memory       *)
(* backend keeps under an id (kind "ref") or an object of its own (kind    *)
(* "obj") that carries its value.                                          *)
(***************************************************************************)
Ref(i) == [kind |-> "ref", store |-> "node_instances", id |-> i, val |-> NoInstance]
NodeRef(b, n) == [kind |-> "ref", store |-> b, id |-> n, val |-> NoInstance]
Obj(i, x) == [kind |-> "obj", store |-> "", id |-> i, val |-> x]
NoneHandle == [kind |-> "None", store |-> "", id |-> "", val |-> NoInstance]

NoCall ==
    [op |-> "none", node_instance_id |-> "", version |-> 0,
     runtime_properties |-> NoProps, state |-> NoState]
GetCall(i) == [NoCall EXCEPT !.op = "get_node_instance", !.node_instance_id = i]
GetAllCall == [NoCall EXCEPT !.op = "get_node_instances"]
GetNodeCall(n) == [NoCall EXCEPT !.op = "get_node", !.node_instance_id = n]
GetNodesCall == [NoCall EXCEPT !.op = "get_nodes"]
UpdateCall(i, version, runtime_properties, state) ==
    [op |-> "update_node_instance", node_instance_id |-> i, version |-> version,
     runtime_properties |-> runtime_properties, state |-> state]

\* The calls the threads issue: reads of known and unknown ids, property-only
\* updates, state transitions with and without properties.
UpdateArgs ==
    {<<RP_ip, NoState>>, <<NoProps, Started>>, <<RP_ports, Started>>}
StoreCalls ==
    {GetCall(i) : i \in InstanceIds \cup {UnknownId}}
    \cup {GetAllCall}
    \cup {UpdateCall(i, v, a[1], a[2]) :
            i \in InstanceIds, v \in VersionArgs, a \in UpdateArgs}
    \cup {UpdateCall(UnknownId, 0, RP_ip, NoState)}

NoResult == [kind |-> "none", val |-> {}]
Raised(e) == [kind |-> e, val |-> {}]
Returned(handles) == [kind |-> "return", val |-> handles]
ReturnedNodes(handles) == [kind |-> "return_nodes", val |-> handles]

NoRace == [active |-> FALSE, id |-> "", version |-> 0, overlap |-> FALSE]
NoRaceLog == [runtime_properties |-> NoProps, outcome |-> "none"]

VARIABLES
    backend,         \* "memory" | "file": the storage_cls of the store
    node_instances,  \* InMemoryStorage._node_instances: id -> live object
    files,           \* FileStorage: instance path -> file content
    locks,           \* Storage._locks: id -> RLock
    pc,              \* per thread: the statement it is about to execute
    call,            \* per thread: the call it is executing
    instance,        \* per thread: the local variable `instance`
    exc,             \* per thread: the exception propagating, or "none"
    todo,            \* per thread: ids left in FileStorage.get_node_instances
    result,          \* per thread: what the finished call returned or raised
    snap,            \* per thread: the stored instance when the lock was taken
    done,            \* per instance: updates that returned normally
    ncalls,          \* calls issued so far
    race,            \* the scenario of concurrent same-version updates
    raceLog,         \* per thread: its part in the scenario
    past             \* per instance: the states it had between updates

\* One caller driving a memory store and a file store with the same calls.
VARIABLES
    nodes,           \* Storage._nodes of each store: id -> Node
    seqCall,         \* the call last made on both stores
    ret,             \* per store: the outcome the caller holds
    readVal,         \* per store: the outcome as it was when the call ended
    mutated,         \* per store: the caller has changed a returned object
    nsteps           \* calls made so far

\* Environment.__init__.
VARIABLES
    plan_nodes,      \* the Nodes made of self.plan['nodes'], in order
    plan_instances,  \* the NodeInstances made of self.plan['node_instances']
    storage_cls,     \* the storage_cls argument
    envPc,           \* the statement __init__ is about to execute
    envIndex,        \* the node the loop of line 152 is at
    envError,        \* the exception __init__ raised, or "none"
    storage,         \* self.storage: the class constructed, or "None"
    environment      \* an Environment object was returned to the caller

\* Environment.execute.
VARIABLES
    workflows,       \* self.plan['workflows']: name -> workflow
    execCall,        \* the arguments of the execute call
    execPc,          \* the statement execute is about to execute
    execError,       \* the exception execute raised
    merged_parameters, \* what _merge_and_validate_execution_parameters gave
    invocations,     \* the calls of workflow implementations, in order
    execInvoked,     \* calls of the implementation by the current execute
    nexecs           \* execute calls made so far

\* Environment.outputs.
VARIABLES
    plan_outputs,    \* self.plan['outputs']: output name -> value
    outputsRet       \* what the last outputs() call returned, and on what

\* A caller that retries its update after a conflict.
VARIABLES
    retry            \* where the caller is in its loop, and the version it read

\* FileStorage.__init__ and the directory it works on.
VARIABLES
    fs               \* the directories, the clear argument, the statement
                     \* __init__ is at, the files it wrote, what was read

\* copy.deepcopy of a live instance of the memory store.
VARIABLES
    copying          \* per thread: the copy so far, the keys left to copy,
                     \* the number of keys when the iteration began

storeVars == <<backend, node_instances, files, locks, nodes>>
threadVars == <<pc, call, instance, exc, todo, result>>
historyVars == <<snap, done, ncalls, race, raceLog, past>>
seqVars == <<seqCall, ret, readVal, mutated, nsteps>>
envVars == <<plan_nodes, plan_instances, storage_cls, envPc, envIndex, envError,
             storage, environment>>
execVars == <<workflows, execCall, execPc, execError, merged_parameters,
              invocations, execInvoked, nexecs>>
outVars == <<plan_outputs, outputsRet>>
retryVars == <<retry>>
fsVars == <<fs>>
copyVars == <<copying>>
callRest == <<nodes, seqVars, envVars, execVars, outVars, retryVars, fsVars>>
restVars == <<callRest, copyVars>>
seqRestVars == <<threadVars, historyVars, envVars, execVars, outVars, retryVars, fsVars, copyVars>>
vars == <<storeVars, threadVars, historyVars, seqVars, envVars, execVars,
          outVars, retryVars, fsVars, copyVars>>

\* The object a handle denotes.
Deref(h) ==
    IF h.kind = "ref"
    THEN IF h.store = "node_instances" THEN node_instances[h.id]
         ELSE nodes[h.store][h.id]
    ELSE h.val

\* copy.deepcopy: a new object with the value of the one copied.
deepcopy_alias(h) == h
deepcopy(h) == Obj(h.id, Deref(h))

\* The instance as stored by the backend under id i.
Stored(i) ==
    IF backend = "memory" THEN node_instances[i] ELSE json_loads(files[i])

\* InMemoryStorage._load_instance: dict.get gives the live object or None.
InMemoryStorage_load_instance(node_instance_id) ==
    IF node_instance_id \in DOMAIN node_instances
    THEN Ref(node_instance_id) ELSE NoneHandle

\* FileStorage._load_instance, lines 363-364: a new NodeInstance parsed from
\* the file.
FileStorage_load_instance(node_instance_id) ==
    Obj(node_instance_id, json_loads(files[node_instance_id]))

\* The id the thread's _load_instance is loading.
LoadId(t) ==
    IF call[t].op = "get_node_instances" THEN Head(todo[t])
    ELSE call[t].node_instance_id

(***************************************************************************)
(* The state after construction of a store from the plan: every instance   *)
(* at version 0, one free RLock per instance id.  FileStorage has written  *)
(* every instance to its file and dropped _node_instances.                 *)
(***************************************************************************)
InitStore(b) ==
    /\ backend = b
    /\ node_instances =
         IF b = "file" THEN <<>> ELSE [i \in InstanceIds |-> PlanInstance(i)]
    /\ files =
         IF b = "memory" THEN <<>>
         ELSE [i \in InstanceIds |-> json_dumps(PlanInstance(i))]
    /\ locks = [i \in InstanceIds |-> RLock]
    /\ nodes = [s \in Backends |-> [n \in NodeIds |-> PlanNode(n)]]

(***************************************************************************)
(* copy.deepcopy of a NodeInstance, a dict: the copy is filled from an     *)
(* iterator over the items of the object copied.  The keys the store adds  *)
(* or reassigns are version (there since Storage.__init__, line 236),      *)
(* runtime_properties (line 274) and state (line 276); the other keys      *)
(* never change.  A key the plan did not give and no update has assigned   *)
(* is absent and reads as None.                                            *)
(***************************************************************************)
Keys(x) ==
    {"version"}
    \cup (IF x.runtime_properties # NoProps THEN {"runtime_properties"} ELSE {})
    \cup (IF x.state # NoState THEN {"state"} ELSE {})

\* No copy in progress.
NoCopy == [val |-> NoInstance, keys |-> {}, size |-> 0]

\* The copy begins: the iterator is made over the dict as it is now, the
\* copy has the keys that never change.
BeginCopy(x) ==
    [val |-> [NoInstance EXCEPT !.id = x.id, !.node_id = x.node_id],
     keys |-> Keys(x),
     size |-> Cardinality(Keys(x))]

\* The dict iterator's next(): RuntimeError("dictionary changed size during
\* iteration") when the dict has not the size it had when the iterator was
\* made.
SizeChanged(c, x) == Cardinality(Keys(x)) # c.size

\* One item is copied from the object into the copy.
CopyItem(c, x, k) == [val |-> [c.val EXCEPT ![k] = x[k]],
                      keys |-> c.keys \ {k},
                      size |-> c.size]

InitThreads ==
    /\ pc = [t \in Threads |-> "idle"]
    /\ call = [t \in Threads |-> NoCall]
    /\ instance = [t \in Threads |-> NoneHandle]
    /\ exc = [t \in Threads |-> "none"]
    /\ todo = [t \in Threads |-> <<>>]
    /\ result = [t \in Threads |-> NoResult]
    /\ copying = [t \in Threads |-> NoCopy]
    /\ snap = [t \in Threads |-> NoInstance]
    /\ done = [i \in InstanceIds |-> 0]
    /\ ncalls = 0
    /\ race = NoRace
    /\ raceLog = [t \in Threads |-> NoRaceLog]
    /\ past = [i \in InstanceIds |-> {PlanInstance(i)}]

(***************************************************************************)
(* Operation mappings.  A dotted path is the sequence of its components;   *)
(* the host environment has one importable module, pkg.tasks, with the     *)
(* attributes create and run.                                              *)
(***************************************************************************)
OpGood == <<"pkg", "tasks", "create">>
OpNoModule == <<"nopkg", "tasks", "create">>
OpNoAttribute == <<"pkg", "tasks", "missing">>
Modules == {<<"pkg", "tasks">>}
ModuleAttributes == {"create", "run"}

\* Environment._get_module_method, lines 167-182: "none" when the method is
\* found, else the exception raised.
get_module_method(module_method_path) ==
    LET module_name == SubSeq(module_method_path, 1, Len(module_method_path) - 1)
        method_name == module_method_path[Len(module_method_path)]
    IN
    IF module_name \notin Modules THEN "ImportError"
    ELSE IF method_name \notin ModuleAttributes THEN "AttributeError"
    ELSE "none"

NoExecCall ==
    [workflow |-> "", parameters |-> <<>>, allow_custom_parameters |-> FALSE]
NoExecError == [kind |-> "none", what |-> "", names |-> {}]

\* No Environment under construction.
InitEnv ==
    /\ plan_nodes = <<>>
    /\ plan_instances = <<>>
    /\ storage_cls = "None"
    /\ envPc = "constructed"
    /\ envIndex = 0
    /\ envError = "none"
    /\ storage = "InMemoryStorage"
    /\ environment = TRUE

\* No execute call.
InitExec ==
    /\ workflows = <<>>
    /\ execCall = NoExecCall
    /\ execPc = "idle"
    /\ execError = NoExecError
    /\ merged_parameters = <<>>
    /\ invocations = <<>>
    /\ execInvoked = 0
    /\ nexecs = 0

\* No outputs() call.
NoOutputs == [store |-> "none", value |-> <<>>, plan |-> <<>>, instances |-> <<>>]
NoFs ==
    [pc |-> "none", storage_dir |-> FALSE, instances_dir |-> FALSE,
     clear |-> FALSE, prior |-> <<>>, writes |-> <<>>, read |-> <<>>]
NoRetry == [phase |-> "none", id |-> "", version |-> 0, conflicts |-> 0]
InitOut ==
    /\ plan_outputs = <<>>
    /\ outputsRet = NoOutputs
    /\ retry = NoRetry
    /\ fs = NoFs

\* No sequential caller.
InitSeq ==
    /\ seqCall = NoCall
    /\ ret = [s \in Backends |-> NoResult]
    /\ readVal = [s \in Backends |-> NoResult]
    /\ mutated = [s \in Backends |-> FALSE]
    /\ nsteps = 0

Init ==
    /\ \E b \in Backends : InitStore(b)
    /\ InitThreads
    /\ InitSeq
    /\ InitEnv
    /\ InitExec
    /\ InitOut

\* Where a call starts, by operation and backend.
Entry(op) ==
    CASE op = "update_node_instance" -> "update_lock"
      [] op = "get_node_instance" ->
           IF backend = "memory" THEN "get_memory" ELSE "load_lock"
      [] OTHER ->
           IF backend = "memory" THEN "getall_memory" ELSE "getall_ids"

\* In the scenario of C4 every thread submits one property-only update of the
\* same instance with the version stored when the scenario began.
CallsAllowed(t) ==
    IF race.active
    THEN IF raceLog[t].outcome = "none"
         THEN {UpdateCall(race.id, race.version, rp, NoState) :
                 rp \in {RP_ip, RP_ports}}
         ELSE {}
    ELSE StoreCalls

\* A thread issues a call.
Call(t) ==
    /\ pc[t] = "idle"
    /\ race.active \/ ncalls < MaxCalls
    /\ \E c \in CallsAllowed(t) :
         /\ call' = [call EXCEPT ![t] = c]
         /\ pc' = [pc EXCEPT ![t] = Entry(c.op)]
         /\ raceLog' =
              IF race.active
              THEN [raceLog EXCEPT ![t] =
                      [runtime_properties |-> c.runtime_properties,
                       outcome |-> "pending"]]
              ELSE raceLog
    /\ race' =
         IF race.active
         THEN [race EXCEPT !.overlap =
                 @ \/ \E u \in Threads \ {t} : raceLog[u].outcome = "pending"]
         ELSE race
    /\ ncalls' = IF race.active THEN ncalls ELSE ncalls + 1
    /\ UNCHANGED <<storeVars, instance, exc, todo, result, snap, done, past,
                   restVars>>

\* The threads are idle and from now on submit the same-version updates.
StartRace ==
    /\ ~race.active
    /\ \A t \in Threads : pc[t] = "idle"
    /\ \E i \in InstanceIds :
         race' = [active |-> TRUE, id |-> i, version |-> Stored(i).version,
                  overlap |-> FALSE]
    /\ UNCHANGED <<storeVars, threadVars, snap, done, ncalls, raceLog, past,
                   restVars>>

\* update_node_instance line 262: `with self._lock(node_instance_id)`.
\* self._locks[id] raises KeyError for an id without a lock; the RLock blocks
\* while another thread owns it.
UpdateLock(t) ==
    /\ pc[t] = "update_lock"
    /\ LET id == call[t].node_instance_id IN
       IF id \notin DOMAIN locks
       THEN /\ result' = [result EXCEPT ![t] = Raised("KeyError")]
            /\ pc' = [pc EXCEPT ![t] = "returned"]
            /\ UNCHANGED <<locks, snap>>
       ELSE /\ CanAcquire(locks[id], t)
            /\ locks' = [locks EXCEPT ![id] = Acquire(@, t)]
            /\ snap' = [snap EXCEPT ![t] = Stored(id)]
            /\ pc' = [pc EXCEPT ![t] = "update_load"]
            /\ UNCHANGED result
    /\ UNCHANGED <<backend, node_instances, files, call, instance, exc, todo,
                   done, ncalls, race, raceLog, past, restVars>>

\* Line 263 and _get_node_instance, lines 280-284: the memory backend hands
\* out its live object (RuntimeError when there is none); the file backend
\* enters FileStorage._load_instance.
UpdateLoad(t) ==
    /\ pc[t] = "update_load"
    /\ IF backend = "memory"
       THEN LET h == InMemoryStorage_load_instance(call[t].node_instance_id) IN
            /\ instance' = [instance EXCEPT ![t] = h]
            /\ exc' = [exc EXCEPT ![t] =
                         IF h = NoneHandle THEN "RuntimeError" ELSE "none"]
            /\ pc' = [pc EXCEPT ![t] =
                        IF h = NoneHandle THEN "update_unlock" ELSE "update_check"]
       ELSE /\ pc' = [pc EXCEPT ![t] = "load_lock"]
            /\ UNCHANGED <<instance, exc>>
    /\ UNCHANGED <<storeVars, call, todo, result, historyVars, restVars>>

\* FileStorage._load_instance line 362: `with self._lock(node_instance_id)`.
LoadLock(t) ==
    /\ pc[t] = "load_lock"
    /\ LET id == LoadId(t) IN
       IF id \notin DOMAIN locks
       THEN /\ result' = [result EXCEPT ![t] = Raised("KeyError")]
            /\ pc' = [pc EXCEPT ![t] = "returned"]
            /\ UNCHANGED locks
       ELSE /\ CanAcquire(locks[id], t)
            /\ locks' = [locks EXCEPT ![id] = Acquire(@, t)]
            /\ pc' = [pc EXCEPT ![t] = "load_read"]
            /\ UNCHANGED result
    /\ UNCHANGED <<backend, node_instances, files, call, instance, exc, todo,
                   historyVars, restVars>>

\* FileStorage._load_instance lines 363-364 and the end of its with block:
\* the file is read and parsed, the lock released, and the caller goes on:
\* update_node_instance with its check, get_node_instance returns the
\* object, get_node_instances appends it and loads the next id.
LoadRead(t) ==
    /\ pc[t] = "load_read"
    /\ LET id == LoadId(t)
           h == FileStorage_load_instance(id)
       IN
       /\ locks' = [locks EXCEPT ![id] = Release(@)]
       /\ CASE call[t].op = "update_node_instance" ->
                 /\ instance' = [instance EXCEPT ![t] = h]
                 /\ pc' = [pc EXCEPT ![t] = "update_check"]
                 /\ UNCHANGED <<result, todo>>
            [] call[t].op = "get_node_instance" ->
                 /\ result' = [result EXCEPT ![t] = Returned({h})]
                 /\ pc' = [pc EXCEPT ![t] = "returned"]
                 /\ UNCHANGED <<instance, todo>>
            [] OTHER ->
                 /\ result' = [result EXCEPT ![t] = Returned(@.val \cup {h})]
                 /\ todo' = [todo EXCEPT ![t] = Tail(@)]
                 /\ pc' = [pc EXCEPT ![t] =
                             IF Tail(todo[t]) = <<>> THEN "returned"
                             ELSE "load_lock"]
                 /\ UNCHANGED instance
    /\ UNCHANGED <<backend, node_instances, files, call, exc, historyVars,
                   restVars>>

\* An assignment instance[key] = value: it changes the object that the local
\* variable `instance` refers to, which is the stored object itself in the
\* memory backend.
AssignInstance(t, x) ==
    IF instance[t].kind = "ref"
    THEN /\ node_instances' = [node_instances EXCEPT ![instance[t].id] = x]
         /\ UNCHANGED instance
    ELSE /\ instance' = [instance EXCEPT ![t].val = x]
         /\ UNCHANGED node_instances

\* Lines 264-272: the version check; StorageConflictError, or version += 1.
UpdateCheck(t) ==
    /\ pc[t] = "update_check"
    /\ IF VersionConflict(Deref(instance[t]), call[t].version, call[t].state)
       THEN /\ exc' = [exc EXCEPT ![t] = "StorageConflictError"]
            /\ pc' = [pc EXCEPT ![t] = "update_unlock"]
            /\ UNCHANGED <<node_instances, instance>>
       ELSE /\ AssignInstance(t, IncrementVersion(Deref(instance[t])))
            /\ pc' = [pc EXCEPT ![t] = "update_props"]
            /\ UNCHANGED exc
    /\ UNCHANGED <<backend, files, locks, call, todo, result, historyVars,
                   restVars>>

\* Lines 273-274.
UpdateProps(t) ==
    /\ pc[t] = "update_props"
    /\ AssignInstance(t, SetRuntimeProperties(Deref(instance[t]),
                                              call[t].runtime_properties))
    /\ pc' = [pc EXCEPT ![t] = "update_state"]
    /\ UNCHANGED <<backend, files, locks, call, exc, todo, result, historyVars,
                   restVars>>

\* Lines 275-277: the state, then self._store_instance(instance), which is
\* `pass` in InMemoryStorage and starts FileStorage._store_instance.
UpdateState(t) ==
    /\ pc[t] = "update_state"
    /\ AssignInstance(t, SetState(Deref(instance[t]), call[t].state))
    /\ pc' = [pc EXCEPT ![t] =
                IF backend = "memory" THEN "update_unlock" ELSE "store_lock"]
    /\ UNCHANGED <<backend, files, locks, call, exc, todo, result, historyVars,
                   restVars>>

\* FileStorage._store_instance lines 367-369: instance_lock.acquire().
StoreLock(t) ==
    /\ pc[t] = "store_lock"
    /\ CanAcquire(locks[instance[t].id], t)
    /\ locks' = [locks EXCEPT ![instance[t].id] = Acquire(@, t)]
    /\ pc' = [pc EXCEPT ![t] = "store_write"]
    /\ UNCHANGED <<backend, node_instances, files, call, instance, exc, todo,
                   result, historyVars, restVars>>

\* FileStorage._store_instance lines 370-375: the file is overwritten with
\* json.dumps(node_instance) and the lock released.
StoreWrite(t) ==
    /\ pc[t] = "store_write"
    /\ files' = [files EXCEPT ![instance[t].id] = json_dumps(instance[t].val)]
    /\ locks' = [locks EXCEPT ![instance[t].id] = Release(@)]
    /\ pc' = [pc EXCEPT ![t] = "update_unlock"]
    /\ UNCHANGED <<backend, node_instances, call, instance, exc, todo, result,
                   historyVars, restVars>>

\* The end of the with block of line 262, left normally or by an exception:
\* the lock is released and the call returns or raises.
UpdateUnlock(t) ==
    /\ pc[t] = "update_unlock"
    /\ LET id == call[t].node_instance_id IN
       /\ locks' = [locks EXCEPT ![id] = Release(@)]
       /\ done' = IF exc[t] = "none" THEN [done EXCEPT ![id] = @ + 1] ELSE done
       /\ past' = IF exc[t] = "none"
                  THEN [past EXCEPT ![id] = @ \cup {Stored(id)}]
                  ELSE past
    /\ result' = [result EXCEPT ![t] =
                    IF exc[t] = "none" THEN Returned({}) ELSE Raised(exc[t])]
    /\ exc' = [exc EXCEPT ![t] = "none"]
    /\ instance' = [instance EXCEPT ![t] = NoneHandle]
    /\ pc' = [pc EXCEPT ![t] = "returned"]
    /\ UNCHANGED <<backend, node_instances, files, call, todo, snap, ncalls,
                   race, raceLog, restVars>>

\* InMemoryStorage.get_node_instance, line 321, with _get_node_instance:
\* RuntimeError for a missing instance, else copy.deepcopy of the live object
\* begins.  No lock is taken.
GetMemory(t) ==
    /\ pc[t] = "get_memory"
    /\ LET h == InMemoryStorage_load_instance(call[t].node_instance_id) IN
       IF h = NoneHandle
       THEN /\ result' = [result EXCEPT ![t] = Raised("RuntimeError")]
            /\ pc' = [pc EXCEPT ![t] = "returned"]
            /\ UNCHANGED copying
       ELSE /\ copying' = [copying EXCEPT ![t] = BeginCopy(Deref(h))]
            /\ pc' = [pc EXCEPT ![t] = "copy_key"]
            /\ UNCHANGED result
    /\ UNCHANGED <<storeVars, call, instance, exc, todo, historyVars, callRest>>

\* The orders in which os.listdir may give the ids.
Orders(S) ==
    {s \in [1..Cardinality(S) -> S] : \A i \in S : \E k \in DOMAIN s : s[k] = i}

\* InMemoryStorage.get_node_instances, line 330: the list of the live
\* objects is made, in the order of the dict, and copy.deepcopy begins with
\* its first element.  No lock is taken.
GetAllMemory(t) ==
    /\ pc[t] = "getall_memory"
    /\ result' = [result EXCEPT ![t] = Returned({})]
    /\ \E s \in Orders(DOMAIN node_instances) :
         /\ todo' = [todo EXCEPT ![t] = s]
         /\ IF s = <<>>
            THEN /\ pc' = [pc EXCEPT ![t] = "returned"]
                 /\ UNCHANGED copying
            ELSE /\ copying' = [copying EXCEPT ![t] =
                                  BeginCopy(node_instances[Head(s)])]
                 /\ pc' = [pc EXCEPT ![t] = "copy_key"]
    /\ UNCHANGED <<storeVars, call, instance, exc, historyVars, callRest>>

\* One step of copy.deepcopy of a live instance (lines 321 and 330): the
\* iterator's next().  It raises RuntimeError when the dict changed size;
\* else it gives one item, in the order of the dict, which is copied; when
\* no item is left the copy is complete: get_node_instance returns it,
\* get_node_instances appends it and begins the copy of the next element.
CopyKey(t) ==
    /\ pc[t] = "copy_key"
    /\ LET c == copying[t]
           x == node_instances[c.val.id]
       IN
       IF SizeChanged(c, x)
       THEN /\ result' = [result EXCEPT ![t] = Raised("RuntimeError")]
            /\ copying' = [copying EXCEPT ![t] = NoCopy]
            /\ todo' = [todo EXCEPT ![t] = <<>>]
            /\ pc' = [pc EXCEPT ![t] = "returned"]
       ELSE IF c.keys # {}
       THEN /\ \E k \in c.keys :
                 copying' = [copying EXCEPT ![t] = CopyItem(c, x, k)]
            /\ UNCHANGED <<result, todo, pc>>
       ELSE IF call[t].op = "get_node_instance"
       THEN /\ result' = [result EXCEPT ![t] = Returned({Obj(c.val.id, c.val)})]
            /\ copying' = [copying EXCEPT ![t] = NoCopy]
            /\ pc' = [pc EXCEPT ![t] = "returned"]
            /\ UNCHANGED todo
       ELSE /\ result' = [result EXCEPT ![t] =
                            Returned(@.val \cup {Obj(c.val.id, c.val)})]
            /\ todo' = [todo EXCEPT ![t] = Tail(@)]
            /\ IF Tail(todo[t]) = <<>>
               THEN /\ copying' = [copying EXCEPT ![t] = NoCopy]
                    /\ pc' = [pc EXCEPT ![t] = "returned"]
               ELSE /\ copying' = [copying EXCEPT ![t] =
                                     BeginCopy(node_instances[Head(Tail(todo[t]))])]
                    /\ UNCHANGED pc
    /\ UNCHANGED <<storeVars, call, instance, exc, historyVars, callRest>>

\* FileStorage.get_node_instances, lines 381-382, and _instance_ids, line
\* 386: the directory is listed, in any order.
GetAllIds(t) ==
    /\ pc[t] = "getall_ids"
    /\ \E s \in Orders(DOMAIN files) : todo' = [todo EXCEPT ![t] = s]
    /\ result' = [result EXCEPT ![t] = Returned({})]
    /\ pc' = [pc EXCEPT ![t] = IF DOMAIN files = {} THEN "returned" ELSE "load_lock"]
    /\ UNCHANGED <<storeVars, call, instance, exc, historyVars, restVars>>

\* The caller has the call's outcome and is free to issue the next call.
Return(t) ==
    /\ pc[t] = "returned"
    /\ raceLog' =
         IF race.active
         THEN [raceLog EXCEPT ![t].outcome = result[t].kind]
         ELSE raceLog
    /\ pc' = [pc EXCEPT ![t] = "idle"]
    /\ call' = [call EXCEPT ![t] = NoCall]
    /\ result' = [result EXCEPT ![t] = NoResult]
    /\ snap' = [snap EXCEPT ![t] = NoInstance]
    /\ UNCHANGED <<storeVars, instance, exc, todo, done, ncalls, race, past,
                   restVars>>

Next ==
    \/ StartRace
    \/ \E t \in Threads :
         \/ Call(t)
         \/ UpdateLock(t)
         \/ UpdateLoad(t)
         \/ LoadLock(t)
         \/ LoadRead(t)
         \/ UpdateCheck(t)
         \/ UpdateProps(t)
         \/ UpdateState(t)
         \/ StoreLock(t)
         \/ StoreWrite(t)
         \/ UpdateUnlock(t)
         \/ GetMemory(t)
         \/ GetAllMemory(t)
         \/ CopyKey(t)
         \/ GetAllIds(t)
         \/ Return(t)

Spec == Init /\ [][Next]_vars

(***************************************************************************)
(* Properties of the store under concurrent callers (Spec).                *)
(***************************************************************************)

\* Thread t runs an accepted update of instance i whose increment is in the
\* store and which has not returned yet.
PastIncrement(t, i) ==
    /\ call[t].op = "update_node_instance"
    /\ call[t].node_instance_id = i
    /\ exc[t] = "none"
    /\ IF backend = "memory"
       THEN pc[t] \in {"update_props", "update_state", "update_unlock"}
       ELSE pc[t] = "update_unlock"

\* C1: on both backends the stored version of every instance is 0 plus the
\* number of updates of it that returned normally, state transitions and
\* property updates alike, counting the one accepted update that holds the
\* lock from the moment its increment is stored; and no step lowers the
\* version or raises it by more than 1.
C1_VersionCountsUpdates ==
    /\ [](\A i \in InstanceIds :
            /\ Cardinality({t \in Threads : PastIncrement(t, i)}) <= 1
            /\ Stored(i).version =
                 done[i] + Cardinality({t \in Threads : PastIncrement(t, i)}))
    /\ [][\A i \in InstanceIds :
            Stored(i)'.version \in {Stored(i).version, Stored(i).version + 1}]_vars

\* C1 witness: an instance at version 2 after a property update and a state
\* transition have both returned.
C1_Witness ==
    \E i \in InstanceIds :
        /\ done[i] = 2
        /\ Stored(i).version = 2
        /\ Stored(i).state # NoState
        /\ Stored(i).runtime_properties = RP_ip
        /\ \A t \in Threads : pc[t] = "idle"

\* C2: a property-only update (state omitted) of an existing instance whose
\* expected version differs from the stored one raises StorageConflictError,
\* and when the error leaves the with block the stored instance is what it was
\* when the call took the lock.
C2_StaleUpdateRejected ==
    \A t \in Threads :
        (/\ call[t].op = "update_node_instance"
         /\ call[t].node_instance_id \in InstanceIds
         /\ call[t].state = NoState)
        =>
        /\ (pc[t] = "update_unlock" /\ call[t].version # snap[t].version)
             => exc[t] = "StorageConflictError"
        /\ (pc[t] = "update_unlock" /\ exc[t] = "StorageConflictError")
             => Stored(call[t].node_instance_id) = snap[t]
        /\ (pc[t] = "returned" /\ call[t].version # snap[t].version)
             => result[t] = Raised("StorageConflictError")

\* C2 witness: a property-only update with a version below the stored one is
\* leaving with the conflict error.
C2_Witness ==
    \E t \in Threads :
        /\ pc[t] = "update_unlock"
        /\ call[t].state = NoState
        /\ call[t].version < snap[t].version
        /\ exc[t] = "StorageConflictError"

\* C3: an update of an existing instance that supplies a state is never
\* rejected with a conflict, whatever its expected version; when it leaves the
\* with block the stored version is one more than when it took the lock and
\* the stored state is the supplied one.
C3_StateTransitionAccepted ==
    \A t \in Threads :
        (/\ call[t].op = "update_node_instance"
         /\ call[t].node_instance_id \in InstanceIds
         /\ call[t].state # NoState)
        =>
        /\ exc[t] = "none"
        /\ pc[t] = "update_unlock" =>
             /\ Stored(call[t].node_instance_id).version = snap[t].version + 1
             /\ Stored(call[t].node_instance_id).state = call[t].state
        /\ pc[t] = "returned" => result[t] = Returned({})

\* C3 witness: a state transition whose expected version is not the stored
\* one has been applied.
C3_Witness ==
    \E t \in Threads :
        /\ pc[t] = "update_unlock"
        /\ call[t].state # NoState
        /\ call[t].version # snap[t].version
        /\ Stored(call[t].node_instance_id).version = snap[t].version + 1

\* The threads that have submitted their update in the scenario.
Racers == {t \in Threads : raceLog[t].outcome # "none"}

\* C4: threads submit property-only updates of one instance, all with the
\* version v stored when they began; once all submitted updates have returned,
\* exactly one succeeded, every other raised StorageConflictError, and the
\* stored version is v + 1 with the runtime properties of the one that
\* succeeded.
C4_OneWinner ==
    (/\ race.active
     /\ Racers # {}
     /\ \A t \in Racers : raceLog[t].outcome # "pending")
    =>
    \E w \in Racers :
        /\ raceLog[w].outcome = "return"
        /\ \A t \in Racers \ {w} : raceLog[t].outcome = "StorageConflictError"
        /\ Stored(race.id).version = race.version + 1
        /\ Stored(race.id).runtime_properties = raceLog[w].runtime_properties

\* C4 witness: two updates that were in flight together have both returned,
\* from a stored version above 0.
C4_Witness ==
    /\ race.active
    /\ race.overlap
    /\ race.version > 0
    /\ Cardinality(Racers) >= 2
    /\ \A t \in Racers : raceLog[t].outcome \in {"return", "StorageConflictError"}

\* C5: no thread owns the locks of two instance ids at once.
C5_OneLockPerThread ==
    \A t \in Threads :
        Cardinality({i \in DOMAIN locks : locks[i].owner = t}) <= 1

\* C5 witness: FileStorage.get_node_instances has loaded one instance and
\* owns the lock of the next one.
C5_Witness ==
    \E t \in Threads :
        /\ call[t].op = "get_node_instances"
        /\ pc[t] = "load_read"
        /\ Len(todo[t]) = 1
        /\ locks[Head(todo[t])].owner = t
        /\ result[t].val # {}

(***************************************************************************)
(* One caller, two stores (SpecSeq).  An InMemoryStorage and a FileStorage *)
(* built from the same plan, with no directory left by an earlier run, are *)
(* given the same calls one after the other; every call runs to its end    *)
(* before the next begins, so every lock is free when a call starts.       *)
(***************************************************************************)

\* Number of calls the caller makes on the two stores.
MaxSteps == 3

SeqUpdateArgs ==
    {<<RP_ip, NoState>>, <<RP_tuple, NoState>>, <<RP_intkey, NoState>>,
     <<NoProps, Started>>}
SeqReads ==
    {GetCall(i) : i \in {"i1", UnknownId}}
    \cup {GetAllCall}
    \cup {GetNodeCall(n) : n \in {"web_server", UnknownId}}
    \cup {GetNodesCall}
SeqUpdates ==
    {UpdateCall("i1", v, a[1], a[2]) : v \in VersionArgs, a \in SeqUpdateArgs}
    \cup {UpdateCall(UnknownId, 0, RP_ip, NoState)}

\* self._load_instance of store s.
Storage_load_instance(s, node_instance_id) ==
    IF s = "memory" THEN InMemoryStorage_load_instance(node_instance_id)
    ELSE FileStorage_load_instance(node_instance_id)

NotStored(r) == [result |-> r, stored |-> FALSE, instance |-> NoInstance]

\* Storage.update_node_instance, lines 262-277, on store s: what it raises
\* or returns and the instance it hands to the store.
UpdateOutcome(s, c) ==
    IF c.node_instance_id \notin DOMAIN locks
    THEN NotStored(Raised("KeyError"))
    ELSE LET h == Storage_load_instance(s, c.node_instance_id) IN
         IF h = NoneHandle THEN NotStored(Raised("RuntimeError"))
         ELSE IF VersionConflict(Deref(h), c.version, c.state)
         THEN NotStored(Raised("StorageConflictError"))
         ELSE [result |-> Returned({}),
               stored |-> TRUE,
               instance |->
                 SetState(SetRuntimeProperties(IncrementVersion(Deref(h)),
                                               c.runtime_properties),
                          c.state)]

\* Storage._get_node_instance, lines 279-284, as get_node_instance uses it:
\* InMemoryStorage copies the object found, FileStorage returns the object
\* it parsed, after self._locks[id] (KeyError for an id without a lock).
GetNodeInstanceOutcome(s, node_instance_id) ==
    IF s = "memory"
    THEN LET h == InMemoryStorage_load_instance(node_instance_id) IN
         IF h = NoneHandle THEN Raised("RuntimeError")
         ELSE Returned({deepcopy(h)})
    ELSE IF node_instance_id \notin DOMAIN locks THEN Raised("KeyError")
         ELSE Returned({FileStorage_load_instance(node_instance_id)})

\* get_node_instances: line 330, and lines 381-382.
GetNodeInstancesOutcome(s) ==
    IF s = "memory"
    THEN Returned({deepcopy(Ref(i)) : i \in DOMAIN node_instances})
    ELSE IF \E i \in DOMAIN files : i \notin DOMAIN locks THEN Raised("KeyError")
         ELSE Returned({FileStorage_load_instance(i) : i \in DOMAIN files})

\* Storage.get_node, lines 292-297.
GetNodeOutcome(s, node_id) ==
    IF node_id \notin DOMAIN nodes[s] THEN Raised("RuntimeError")
    ELSE ReturnedNodes({deepcopy(NodeRef(s, node_id))})

\* Storage.get_nodes, line 300.
GetNodesOutcome(s) ==
    ReturnedNodes({deepcopy(NodeRef(s, n)) : n \in DOMAIN nodes[s]})

ReadOutcome(s, c) ==
    CASE c.op = "get_node_instance" -> GetNodeInstanceOutcome(s, c.node_instance_id)
      [] c.op = "get_node_instances" -> GetNodeInstancesOutcome(s)
      [] c.op = "get_node" -> GetNodeOutcome(s, c.node_instance_id)
      [] c.op = "get_nodes" -> GetNodesOutcome(s)
      [] OTHER -> NoResult

\* What the caller sees of an outcome: the error, or the values returned.
ValueOf(r) == [kind |-> r.kind, val |-> {Deref(h) : h \in r.val}]

InitSeqStores ==
    /\ backend = "both"
    /\ node_instances = [i \in InstanceIds |-> PlanInstance(i)]
    /\ files = [i \in InstanceIds |-> json_dumps(PlanInstance(i))]
    /\ locks = [i \in InstanceIds |-> RLock]
    /\ nodes = [s \in Backends |-> [n \in NodeIds |-> PlanNode(n)]]

\* The caller reads from both stores.
SeqRead ==
    /\ nsteps < MaxSteps
    /\ \E c \in SeqReads :
         /\ seqCall' = c
         /\ ret' = [s \in Backends |-> ReadOutcome(s, c)]
         /\ readVal' = [s \in Backends |-> ValueOf(ReadOutcome(s, c))]
    /\ mutated' = [s \in Backends |-> FALSE]
    /\ nsteps' = nsteps + 1
    /\ UNCHANGED <<storeVars, seqRestVars>>

\* The caller updates an instance in both stores: the memory store's object
\* is changed in place, the file store's file is rewritten.
SeqUpdate ==
    /\ nsteps < MaxSteps
    /\ \E c \in SeqUpdates :
         LET m == UpdateOutcome("memory", c)
             f == UpdateOutcome("file", c)
         IN
         /\ seqCall' = c
         /\ node_instances' =
              IF m.stored
              THEN [node_instances EXCEPT ![c.node_instance_id] = m.instance]
              ELSE node_instances
         /\ files' =
              IF f.stored
              THEN [files EXCEPT ![c.node_instance_id] = json_dumps(f.instance)]
              ELSE files
         /\ ret' = [s \in Backends |-> IF s = "memory" THEN m.result ELSE f.result]
         /\ readVal' =
              [s \in Backends |-> IF s = "memory" THEN m.result ELSE f.result]
    /\ mutated' = [s \in Backends |-> FALSE]
    /\ nsteps' = nsteps + 1
    /\ UNCHANGED <<backend, locks, nodes, seqRestVars>>

\* The ways the caller changes an object it was given.
Mutations(x) ==
    IF "version" \in DOMAIN x
    THEN {[x EXCEPT !.state = PyStr("mutated")],
          [x EXCEPT !.runtime_properties = Dict({Item(PyStr("k"), PyStr("mutated"))}),
                    !.version = 99]}
    ELSE {[x EXCEPT !.properties = PyStr("mutated")]}

\* The caller changes an object that store s returned.  The change lands in
\* the object the handle refers to.
Mutate(s) ==
    /\ ~mutated[s]
    /\ \E h \in ret[s].val : \E x \in Mutations(Deref(h)) :
         IF h.kind = "ref"
         THEN /\ node_instances' =
                   IF h.store = "node_instances"
                   THEN [node_instances EXCEPT ![h.id] = x] ELSE node_instances
              /\ nodes' =
                   IF h.store = "node_instances" THEN nodes
                   ELSE [nodes EXCEPT ![h.store][h.id] = x]
              /\ UNCHANGED ret
         ELSE /\ ret' = [ret EXCEPT ![s].val = (@ \ {h}) \cup {[h EXCEPT !.val = x]}]
              /\ UNCHANGED <<node_instances, nodes>>
    /\ mutated' = [mutated EXCEPT ![s] = TRUE]
    /\ UNCHANGED <<backend, files, locks, seqCall, readVal, nsteps, seqRestVars>>

NextSeq ==
    \/ SeqRead
    \/ SeqUpdate
    \/ \E s \in Backends : Mutate(s)

InitBoth ==
    /\ InitSeqStores
    /\ InitThreads
    /\ InitSeq
    /\ InitEnv
    /\ InitExec
    /\ InitOut

SpecSeq == InitBoth /\ [][NextSeq]_vars

\* C6: after every call of the same sequence of get_node_instance,
\* get_node_instances and update_node_instance calls, the memory store and
\* the file store have given the caller the same outcome: the same error, or
\* the same instance values.
C6_BackendsAgree == readVal["memory"] = readVal["file"]

\* C7: after the caller has changed an object returned by get_node,
\* get_nodes, get_node_instance or get_node_instances, reading again with no
\* update in between gives what the read gave before the change, on both
\* stores.
C7_ReturnedValuesIndependent ==
    \A s \in Backends :
        mutated[s] => ValueOf(ReadOutcome(s, seqCall)) = readVal[s]

\* C7 witness: the caller has changed the instances returned by both stores
\* after an update was stored.
C7_Witness ==
    /\ mutated["memory"]
    /\ mutated["file"]
    /\ seqCall.op = "get_node_instance"
    /\ \E x \in readVal["memory"].val : x.version = 1

(***************************************************************************)
(* Environment.__init__ (SpecEnv), from the parsed plan on: the check of   *)
(* every node's operation mappings, the preparation of the instances, the  *)
(* check of storage_cls and the construction of the store.                 *)
(***************************************************************************)

\* Number of nodes of the plan.
MaxNodes == 2

\* The values of an operations mapping: nothing, one mapping that resolves,
\* one that names a missing module, one that names a missing attribute.
OperationSets == {{}, {OpGood}, {OpNoModule}, {OpNoAttribute}}
Relationship(s, t) == [source_operations |-> s, target_operations |-> t]
NodeChoices ==
    {[operations |-> o, has_relationships |-> FALSE, relationships |-> <<>>] :
       o \in OperationSets}
    \cup {[operations |-> o, has_relationships |-> TRUE,
           relationships |-> <<Relationship(s, t)>>] :
            o \in OperationSets,
            s \in {{}, {OpGood}, {OpNoModule}},
            t \in {{}, {OpGood}, {OpNoAttribute}}}
StorageClasses == {"None", "FileStorage", "Storage"}

\* The mappings the scan of lines 155-158 goes through for one node, in its
\* order: the node's operations, then each relationship's source_operations
\* and target_operations.
ScanGroupsSkipTargets(node) ==
    [g \in 1..(1 + Len(node.relationships)) |->
       IF g = 1 THEN node.operations
       ELSE node.relationships[g - 1].source_operations]
ScanGroups(node) ==
    [g \in 1..(1 + 2 * Len(node.relationships)) |->
       IF g = 1 THEN node.operations
       ELSE IF g % 2 = 0 THEN node.relationships[g \div 2].source_operations
       ELSE node.relationships[(g - 1) \div 2].target_operations]

\* The mappings of the first group in which _get_module_method raises.
FirstFailing(node) ==
    LET groups == ScanGroups(node)
        bad(g) == {d \in groups[g] : get_module_method(d) # "none"}
        failing == {g \in DOMAIN groups : bad(g) # {}}
    IN IF failing = {} THEN {}
       ELSE bad(CHOOSE g \in failing : \A h \in failing : g <= h)

\* The id of the k-th node of the plan.
PlanNodeIds == <<"web_server", "db", "cache", "queue">>

\* Storage.__init__, lines 231-232: self._nodes has the nodes of the plan,
\* each under its id.
StorageNodes(plan) ==
    [n \in {PlanNodeIds[k] : k \in DOMAIN plan} |-> PlanNode(n)]

\* The stores as the constructor of class cls leaves them.
ConstructStore(cls) ==
    /\ backend' = IF cls = "FileStorage" THEN "file" ELSE "memory"
    /\ node_instances' =
         IF cls = "FileStorage" THEN <<>>
         ELSE [i \in InstanceIds |-> PlanInstance(i)]
    /\ files' =
         IF cls = "FileStorage"
         THEN [i \in InstanceIds |-> json_dumps(PlanInstance(i))] ELSE <<>>
    /\ locks' = [i \in InstanceIds |-> RLock]
    /\ nodes' = [s \in Backends |-> StorageNodes(plan_nodes)]

InitEnvironment ==
    /\ backend = "none"
    /\ node_instances = <<>>
    /\ files = <<>>
    /\ locks = <<>>
    /\ nodes = <<>>
    /\ InitThreads
    /\ InitSeq
    /\ InitExec
    /\ InitOut
    /\ \E n \in 1..MaxNodes : plan_nodes \in [1..n -> NodeChoices]
    /\ plan_instances =
         [i \in InstanceIds |-> [id |-> i, name |-> NodeOf[i], node_id |-> ""]]
    /\ storage_cls \in StorageClasses
    /\ envPc = "prepare_nodes"
    /\ envIndex = 1
    /\ envError = "none"
    /\ storage = "None"
    /\ environment = FALSE

\* _prepare_nodes_and_instances, lines 152-158, for one node: relationships
\* defaults to [], then every mapping is resolved; the first that does not
\* resolve raises out of __init__.
EnvPrepareNode ==
    /\ envPc = "prepare_nodes"
    /\ envIndex <= Len(plan_nodes)
    /\ plan_nodes' = [plan_nodes EXCEPT ![envIndex].has_relationships = TRUE]
    /\ IF FirstFailing(plan_nodes[envIndex]) # {}
       THEN /\ \E d \in FirstFailing(plan_nodes[envIndex]) :
                 envError' = get_module_method(d)
            /\ envPc' = "failed"
            /\ UNCHANGED envIndex
       ELSE /\ envIndex' = envIndex + 1
            /\ UNCHANGED <<envError, envPc>>
    /\ UNCHANGED <<plan_instances, storage_cls, storage, environment, storeVars,
                   threadVars, historyVars, seqVars, execVars, outVars, retryVars, fsVars, copyVars>>

\* Lines 160-163: node_id is set from name in every instance.
EnvPrepareInstances ==
    /\ envPc = "prepare_nodes"
    /\ envIndex > Len(plan_nodes)
    /\ plan_instances' =
         [i \in DOMAIN plan_instances |->
            [plan_instances[i] EXCEPT !.node_id = plan_instances[i].name]]
    /\ envPc' = "storage_cls"
    /\ UNCHANGED <<plan_nodes, storage_cls, envIndex, envError, storage,
                   environment, storeVars, threadVars, historyVars, seqVars,
                   execVars, outVars, retryVars, fsVars, copyVars>>

\* Lines 75-80: InMemoryStorage by default; Storage itself is refused.
EnvStorageClass ==
    /\ envPc = "storage_cls"
    /\ storage_cls' = IF storage_cls = "None" THEN "InMemoryStorage" ELSE storage_cls
    /\ IF storage_cls = "Storage"
       THEN envError' = "ValueError" /\ envPc' = "failed"
       ELSE envPc' = "construct" /\ UNCHANGED envError
    /\ UNCHANGED <<plan_nodes, plan_instances, envIndex, storage, environment,
                   storeVars, threadVars, historyVars, seqVars, execVars, outVars, retryVars, fsVars, copyVars>>

\* Line 82: the store is constructed and __init__ returns.
EnvConstruct ==
    /\ envPc = "construct"
    /\ ConstructStore(storage_cls)
    /\ storage' = storage_cls
    /\ environment' = TRUE
    /\ envPc' = "constructed"
    /\ UNCHANGED <<plan_nodes, plan_instances, storage_cls, envIndex, envError,
                   threadVars, historyVars, seqVars, execVars, outVars, retryVars, fsVars, copyVars>>

NextEnv ==
    \/ EnvPrepareNode
    \/ EnvPrepareInstances
    \/ EnvStorageClass
    \/ EnvConstruct

SpecEnv == InitEnvironment /\ [][NextEnv]_vars

\* Every operation mapping of a node: its own and those of its relationships.
AllMappings(node) ==
    node.operations
    \cup UNION {node.relationships[r].source_operations
                  \cup node.relationships[r].target_operations :
                    r \in DOMAIN node.relationships}

Unresolvable ==
    {d \in UNION {AllMappings(plan_nodes[k]) : k \in DOMAIN plan_nodes} :
       LET module_name == SubSeq(d, 1, Len(d) - 1) IN
       module_name \notin Modules \/ d[Len(d)] \notin ModuleAttributes}

\* C8: when some operation mapping of some node (its operations, or the
\* source or target operations of a relationship) names a module or an
\* attribute that does not resolve, __init__ never reaches the check of
\* storage_cls: it raises ImportError or AttributeError, no store is
\* constructed and no Environment is returned.
C8_UnresolvedMappingAbortsConstruction ==
    Unresolvable # {} =>
        /\ envPc \in {"prepare_nodes", "failed"}
        /\ envPc = "failed" => envError \in {"ImportError", "AttributeError"}
        /\ envPc = "prepare_nodes" => envIndex <= Len(plan_nodes)
        /\ storage = "None"
        /\ backend = "none"
        /\ ~environment

\* C8 witness: construction failed at the second node, whose only mapping
\* that does not resolve is a relationship's target operation.
C8_Witness ==
    /\ envPc = "failed"
    /\ envIndex = 2
    /\ Unresolvable = {OpNoAttribute}
    /\ Len(plan_nodes) = 2
    /\ plan_nodes[2].operations = {OpGood}
    /\ envError = "AttributeError"
    /\ storage = "None"

(***************************************************************************)
(* Environment.execute (SpecExec) on a constructed Environment whose plan  *)
(* declares one workflow, "deploy".                                        *)
(***************************************************************************)

\* Calls of execute in one behaviour.
MaxExecs == 2

ContextKeyword == "__cloudify_context"
DeclaredNames == {"x", "y"}
CallerNames == {"x", "y", "z", ContextKeyword}
DefaultValue == PyInt(5)
CallerValues(name) == IF name = "z" THEN {PyInt(1), PyInt(2)} ELSE {PyInt(1)}
WorkflowNames == {"deploy", "nope"}

\* A declared parameter: with a 'default' key or without one.
Parameter(has_default) ==
    [has_default |-> has_default,
     default |-> IF has_default THEN DefaultValue ELSE PyInt(0)]
WorkflowChoices ==
    {[operation |-> o, parameters |-> p] :
       o \in {OpGood, OpNoModule, OpNoAttribute},
       p \in UNION {[D -> {Parameter(TRUE), Parameter(FALSE)}] :
                      D \in SUBSET DeclaredNames}}
ExecutionParameters ==
    UNION {{p \in [S -> UNION {CallerValues(n) : n \in S}] :
              \A n \in S : p[n] \in CallerValues(n)} : S \in SUBSET CallerNames}

ExecError(kind, what, names) == [kind |-> kind, what |-> what, names |-> names]

\* Lines 193-203: the declared parameters without 'default' that the caller
\* did not supply.
MissingMandatoryFirstOnly(workflow_parameters, execution_parameters) ==
    LET all == {name \in DOMAIN workflow_parameters :
                  /\ ~workflow_parameters[name].has_default
                  /\ name \notin DOMAIN execution_parameters}
    IN IF all = {} THEN {} ELSE {CHOOSE name \in all : TRUE}
missing_mandatory_parameters(workflow_parameters, execution_parameters) ==
    {name \in DOMAIN workflow_parameters :
       /\ ~workflow_parameters[name].has_default
       /\ name \notin DOMAIN execution_parameters}

\* Lines 211-213: the caller's parameters the workflow does not declare.
custom_parameters(workflow_parameters, execution_parameters) ==
    [k \in DOMAIN execution_parameters \ DOMAIN workflow_parameters |->
       execution_parameters[k]]

\* Lines 195-203 and 222: the declared parameters, from the caller or the
\* default, updated with the custom parameters.
MergedDefaultWins(workflow_parameters, execution_parameters) ==
    LET custom == custom_parameters(workflow_parameters, execution_parameters)
    IN [name \in DOMAIN workflow_parameters \cup DOMAIN custom |->
          IF name \in DOMAIN custom THEN custom[name]
          ELSE IF workflow_parameters[name].has_default
          THEN workflow_parameters[name].default
          ELSE execution_parameters[name]]
Merged(workflow_parameters, execution_parameters) ==
    LET custom == custom_parameters(workflow_parameters, execution_parameters)
    IN [name \in DOMAIN workflow_parameters \cup DOMAIN custom |->
          IF name \in DOMAIN custom THEN custom[name]
          ELSE IF name \in DOMAIN execution_parameters
          THEN execution_parameters[name]
          ELSE workflow_parameters[name].default]

\* _merge_and_validate_execution_parameters, lines 185-223: the error raised
\* and the mapping returned.
merge_without_validation(workflow, execution_parameters, allow_custom_parameters) ==
    [error |-> NoExecError,
     merged_parameters |->
       [name \in DOMAIN execution_parameters |-> execution_parameters[name]]]
merge_and_validate_execution_parameters(workflow, execution_parameters, allow_custom_parameters) ==
    LET workflow_parameters == workflow.parameters
        missing == missing_mandatory_parameters(workflow_parameters,
                                                execution_parameters)
        custom == custom_parameters(workflow_parameters, execution_parameters)
    IN
    IF missing # {}
    THEN [error |-> ExecError("ValueError", "missing", missing),
          merged_parameters |-> <<>>]
    ELSE IF ~allow_custom_parameters /\ DOMAIN custom # {}
    THEN [error |-> ExecError("ValueError", "custom", DOMAIN custom),
          merged_parameters |-> <<>>]
    ELSE [error |-> NoExecError,
          merged_parameters |-> Merged(workflow_parameters,
                                       execution_parameters)]

InitExecute ==
    /\ \E b \in Backends : InitStore(b)
    /\ InitThreads
    /\ InitSeq
    /\ InitEnv
    /\ InitOut
    /\ \E w \in WorkflowChoices : workflows = [n \in {"deploy"} |-> w]
    /\ execCall = NoExecCall
    /\ execPc = "idle"
    /\ execError = NoExecError
    /\ merged_parameters = <<>>
    /\ invocations = <<>>
    /\ execInvoked = 0
    /\ nexecs = 0

execRest == <<storeVars, threadVars, historyVars, seqVars, envVars, outVars,
              retryVars, fsVars, copyVars>>

\* execute is called.  parameters=None and parameters={} are the same call
\* from line 191 on.
ExecCall ==
    /\ execPc = "idle"
    /\ nexecs < MaxExecs
    /\ \E w \in WorkflowNames, p \in ExecutionParameters, a \in BOOLEAN :
         execCall' = [workflow |-> w, parameters |-> p,
                      allow_custom_parameters |-> a]
    /\ execPc' = "lookup"
    /\ nexecs' = nexecs + 1
    /\ UNCHANGED <<workflows, execError, merged_parameters, invocations,
                   execInvoked, execRest>>

\* Lines 114-120.
ExecLookup ==
    /\ execPc = "lookup"
    /\ IF execCall.workflow \notin DOMAIN workflows
       THEN /\ execError' = ExecError("ValueError", "not_found",
                                      {execCall.workflow})
            /\ execPc' = "failed"
       ELSE /\ execPc' = "resolve"
            /\ UNCHANGED execError
    /\ UNCHANGED <<workflows, execCall, merged_parameters, invocations,
                   execInvoked, nexecs, execRest>>

\* Lines 122-125.
ExecResolve ==
    /\ execPc = "resolve"
    /\ LET found == get_module_method(workflows[execCall.workflow].operation) IN
       IF found # "none"
       THEN /\ execError' = ExecError(found, "mapping", {})
            /\ execPc' = "failed"
       ELSE /\ execPc' = "merge"
            /\ UNCHANGED execError
    /\ UNCHANGED <<workflows, execCall, merged_parameters, invocations,
                   execInvoked, nexecs, execRest>>

\* Lines 126-140.
ExecMerge ==
    /\ execPc = "merge"
    /\ LET r == merge_and_validate_execution_parameters(
                    workflows[execCall.workflow], execCall.parameters,
                    execCall.allow_custom_parameters) IN
       /\ execError' = r.error
       /\ merged_parameters' = r.merged_parameters
       /\ execPc' = IF r.error = NoExecError THEN "invoke" ELSE "failed"
    /\ UNCHANGED <<workflows, execCall, invocations, execInvoked, nexecs,
                   execRest>>

\* Line 142: the call passes __cloudify_context by keyword next to
\* **merged_parameters; a merged parameter of that name is a TypeError raised
\* by the call itself.
ExecInvoke ==
    /\ execPc = "invoke"
    /\ IF ContextKeyword \in DOMAIN merged_parameters
       THEN /\ execError' = ExecError("TypeError", "multiple_values",
                                      {ContextKeyword})
            /\ execPc' = "failed"
            /\ UNCHANGED <<invocations, execInvoked>>
       ELSE /\ invocations' = Append(invocations, merged_parameters)
            /\ execInvoked' = execInvoked + 1
            /\ execPc' = "done"
            /\ UNCHANGED execError
    /\ UNCHANGED <<workflows, execCall, merged_parameters, nexecs, execRest>>

\* execute has returned or raised; the next call starts afresh.
ExecReturn ==
    /\ execPc \in {"done", "failed"}
    /\ execPc' = "idle"
    /\ execCall' = NoExecCall
    /\ execError' = NoExecError
    /\ merged_parameters' = <<>>
    /\ execInvoked' = 0
    /\ UNCHANGED <<workflows, invocations, nexecs, execRest>>

NextExec ==
    \/ ExecCall
    \/ ExecLookup
    \/ ExecResolve
    \/ ExecMerge
    \/ ExecInvoke
    \/ ExecReturn

SpecExec == InitExecute /\ [][NextExec]_vars

\* The call in progress, once the lookup has found its workflow.
ExecWorkflowFound ==
    /\ execPc \notin {"idle", "lookup"}
    /\ execCall.workflow \in DOMAIN workflows
ExecResolves ==
    get_module_method(workflows[execCall.workflow].operation) = "none"
ExecMissing ==
    {name \in DOMAIN workflows[execCall.workflow].parameters :
       /\ ~workflows[execCall.workflow].parameters[name].has_default
       /\ name \notin DOMAIN execCall.parameters}
ExecCustom ==
    DOMAIN execCall.parameters \ DOMAIN workflows[execCall.workflow].parameters
MissingReported ==
    /\ execInvoked = 0
    /\ execPc \notin {"invoke", "done"}
    /\ execPc = "failed" => execError = ExecError("ValueError", "missing",
                                                  ExecMissing)

\* C9 as stated: whenever a declared parameter without a default is absent
\* from the caller's parameters, execute fails with the validation error
\* that names all of them, and the implementation is not invoked.
C9_Original ==
    (ExecWorkflowFound /\ ExecMissing # {}) => MissingReported

\* C9: provided the workflow's implementation resolves, whenever a declared
\* parameter without a default is absent from the caller's parameters,
\* execute fails with one validation error whose names are exactly the
\* declared parameters without a default that the caller did not supply, and
\* the implementation is not invoked.  (When the implementation does not
\* resolve, execute raises the ImportError or AttributeError of the mapping
\* before it looks at the parameters.)
C9_MissingMandatoryReported ==
    (ExecWorkflowFound /\ ExecResolves /\ ExecMissing # {}) => MissingReported

\* C9 witness: both declared parameters lack a default, the caller gave
\* neither but gave an undeclared one; the error names both and only them.
C9_Witness ==
    /\ execPc = "failed"
    /\ ExecWorkflowFound
    /\ ExecResolves
    /\ DOMAIN execCall.parameters = {"z"}
    /\ ExecMissing = {"x", "y"}
    /\ execError = ExecError("ValueError", "missing", {"x", "y"})
    /\ execInvoked = 0

\* C10: when the caller supplies parameters the workflow does not declare,
\* no mandatory parameter is missing (and the implementation resolves): with
\* allow_custom_parameters false, execute fails with the validation error
\* that names exactly the undeclared names and does not invoke the
\* implementation; with allow_custom_parameters true, execute does not fail
\* and the implementation receives every undeclared parameter with the
\* caller's value.
C10_CustomParameters ==
    (ExecWorkflowFound /\ ExecResolves /\ ExecMissing = {} /\ ExecCustom # {}) =>
        IF ~execCall.allow_custom_parameters
        THEN /\ execInvoked = 0
             /\ execPc \notin {"invoke", "done"}
             /\ execPc = "failed" =>
                  execError = ExecError("ValueError", "custom", ExecCustom)
        ELSE /\ execPc # "failed"
             /\ execPc = "done" =>
                  /\ execInvoked = 1
                  /\ \A k \in ExecCustom :
                       /\ k \in DOMAIN invocations[Len(invocations)]
                       /\ invocations[Len(invocations)][k] = execCall.parameters[k]

\* C11: when validation succeeds, the mapping execute hands to the
\* implementation has as keys exactly the declared names and the caller's
\* undeclared names; a declared name carries the caller's value when the
\* caller gave one and its default otherwise, an undeclared name carries the
\* caller's value.
ExpectedMerged(m) ==
    LET declared == workflows[execCall.workflow].parameters
        given == execCall.parameters
    IN /\ DOMAIN m = DOMAIN declared \cup DOMAIN given
       /\ \A name \in DOMAIN m :
            m[name] = IF name \in DOMAIN given THEN given[name]
                      ELSE declared[name].default
C11_MergedParameters ==
    /\ execPc = "invoke" => ExpectedMerged(merged_parameters)
    /\ execPc = "done" =>
         /\ invocations # <<>>
         /\ invocations[Len(invocations)] = merged_parameters
         /\ ExpectedMerged(invocations[Len(invocations)])

\* C11 witness: the implementation was called with x from its default, y
\* from the caller although it has a default, and the undeclared z.
C11_Witness ==
    /\ execPc = "done"
    /\ DOMAIN workflows["deploy"].parameters = {"x", "y"}
    /\ workflows["deploy"].parameters["y"].has_default
    /\ DOMAIN execCall.parameters = {"y", "z"}
    /\ execCall.parameters["z"] = PyInt(2)
    /\ invocations[Len(invocations)] =
         [n \in {"x", "y", "z"} |->
            IF n = "x" THEN DefaultValue
            ELSE IF n = "y" THEN PyInt(1) ELSE PyInt(2)]

(***************************************************************************)
(* Environment.outputs (SpecOut): one caller updates the instances of a    *)
(* memory store and a file store built from the same plan and asks for the *)
(* outputs.  The plan has two instances of web_server and one of db.       *)
(***************************************************************************)
OutInstanceIds == {"i1", "i2", "i3"}
OutNodeOf == [i \in OutInstanceIds |-> IF i = "i2" THEN "db" ELSE "web_server"]
OutPlanInstance(i) == [PlanInstance("i1") EXCEPT !.id = i, !.node_id = OutNodeOf[i]]

PyNone == [t |-> "None", v |-> ""]
RP_ip2 == Dict({Item(PyStr("ip"), PyStr("10.0.0.2"))})
RP_empty == Dict({})

\* The values of self.plan['outputs']: a literal, or the get_attribute
\* function of a node name and an attribute name.
Literal == PyStr("literal")
GetAttribute(node_name, attribute_name) ==
    [t |-> "get_attribute", v |-> <<node_name, attribute_name>>]
OutputNames == {"endpoint", "label"}
OutputValues ==
    [endpoint |-> {GetAttribute("web_server", "ip"),
                   GetAttribute("web_server", "ports"),
                   GetAttribute("db", "ip")},
     label |-> {Literal, GetAttribute(UnknownId, "ip")}]

\* dict.get(key) on `runtime_properties or {}`, lines 96-98.
runtime_properties_get(runtime_properties, attribute_name) ==
    LET rp == IF runtime_properties.t = "None" \/ runtime_properties.v = {}
              THEN {} ELSE runtime_properties.v
        found == {item \in rp : item.k = PyStr(attribute_name)}
    IN IF found = {} THEN PyNone ELSE (CHOOSE item \in found : TRUE).v

\* Lines 94-95: the instances of the list that belong to the node.
MatchingAll(instances, node_name) == instances
Matching(instances, node_name) ==
    SelectSeq(instances, LAMBDA x : x.node_id = node_name)

\* The handler of lines 87-99 on one value, given the instances that
\* get_node_instances returned.
handler(v, instances) ==
    IF v.t = "get_attribute"
    THEN LET matching == Matching(instances, v.v[1]) IN
         [t |-> "list",
          v |-> [j \in DOMAIN matching |->
                   runtime_properties_get(matching[j].runtime_properties, v.v[2])]]
    ELSE v

\* self.storage.get_node_instances() of store s, the ids taken in order.
get_node_instances(s, order) ==
    [j \in DOMAIN order |-> Deref(IF s = "memory" THEN deepcopy(Ref(order[j]))
                                  ELSE FileStorage_load_instance(order[j]))]

\* The instances store s holds.
StoredIn(s) ==
    [i \in DOMAIN locks |->
       IF s = "memory" THEN node_instances[i] ELSE json_loads(files[i])]

InitOutputs ==
    /\ backend = "both"
    /\ node_instances = [i \in OutInstanceIds |-> OutPlanInstance(i)]
    /\ files = [i \in OutInstanceIds |-> json_dumps(OutPlanInstance(i))]
    /\ locks = [i \in OutInstanceIds |-> RLock]
    /\ nodes = [s \in Backends |-> [n \in NodeIds |-> PlanNode(n)]]
    /\ InitThreads
    /\ InitSeq
    /\ InitEnv
    /\ InitExec
    /\ plan_outputs \in {o \in [OutputNames -> UNION {OutputValues[k] : k \in OutputNames}] :
                          \A k \in OutputNames : o[k] \in OutputValues[k]}
    /\ outputsRet = NoOutputs
    /\ retry = NoRetry
    /\ fs = NoFs

OutUpdates ==
    {UpdateCall(i, 0, rp, Started) :
       i \in OutInstanceIds, rp \in {RP_ip, RP_ip2, RP_tuple, RP_empty}}

\* update_node_instance on both stores.  The caller keeps no outputs of
\* before the update.
OutUpdate ==
    /\ nsteps < MaxSteps
    /\ \E c \in OutUpdates :
         /\ seqCall' = c
         /\ node_instances' =
              [node_instances EXCEPT ![c.node_instance_id] =
                 UpdateOutcome("memory", c).instance]
         /\ files' =
              [files EXCEPT ![c.node_instance_id] =
                 json_dumps(UpdateOutcome("file", c).instance)]
    /\ nsteps' = nsteps + 1
    /\ outputsRet' = NoOutputs
    /\ UNCHANGED <<backend, locks, nodes, ret, readVal, mutated, plan_outputs,
                   threadVars, historyVars, envVars, execVars, retryVars, fsVars, copyVars>>

\* outputs(), lines 101-105, on the Environment of store s: the handler is
\* applied to every value of a deep copy of the plan's outputs; the
\* instances are those get_node_instances returns, the memory store's dict
\* and the file store's directory listing being in any order.
Outputs(s) ==
    /\ \E order \in Orders(DOMAIN locks) :
         outputsRet' =
           [store |-> s,
            value |-> [k \in DOMAIN plan_outputs |->
                         handler(plan_outputs[k], get_node_instances(s, order))],
            plan |-> plan_outputs,
            instances |-> StoredIn(s)]
    /\ UNCHANGED <<plan_outputs, storeVars, seqVars, threadVars, historyVars,
                   envVars, execVars, retryVars, fsVars, copyVars>>

NextOut ==
    \/ OutUpdate
    \/ \E s \in Backends : Outputs(s)

SpecOut == InitOutputs /\ [][NextOut]_vars

\* C12: what outputs() returned on a store.  An output that is
\* get_attribute(n, a) has become a list with one entry for each stored
\* instance whose node_id is n, the entry being the value of a in the
\* instance's runtime properties, or None when the instance has no runtime
\* properties or none named a; any other output has the value of the plan;
\* the plan's outputs and the stored instances are what they were before the
\* call.
C12_OutputsResolved ==
    outputsRet.store # "none" =>
      LET s == outputsRet.store
          at == StoredIn(s)
      IN
      /\ outputsRet.plan = plan_outputs
      /\ outputsRet.instances = at
      /\ DOMAIN outputsRet.value = DOMAIN plan_outputs
      /\ \A k \in DOMAIN plan_outputs :
           IF plan_outputs[k].t # "get_attribute"
           THEN outputsRet.value[k] = plan_outputs[k]
           ELSE LET of == {i \in DOMAIN at : at[i].node_id = plan_outputs[k].v[1]}
                    a == PyStr(plan_outputs[k].v[2])
                    entry(i) ==
                      IF at[i].runtime_properties.t = "dict"
                         /\ \E item \in at[i].runtime_properties.v : item.k = a
                      THEN (CHOOSE item \in at[i].runtime_properties.v :
                              item.k = a).v
                      ELSE PyNone
                IN /\ outputsRet.value[k].t = "list"
                   /\ \E o \in Orders(of) :
                        outputsRet.value[k].v = [j \in DOMAIN o |-> entry(o[j])]

\* C12 witness: on the file store, get_attribute(web_server, ip) gave two
\* entries, an address for one instance and None for the other, which has
\* runtime properties but no ip; the db instance, which has an ip, gave
\* none; the literal output came back as it is in the plan.
C12_Witness ==
    /\ outputsRet.store = "file"
    /\ plan_outputs["endpoint"] = GetAttribute("web_server", "ip")
    /\ plan_outputs["label"] = Literal
    /\ outputsRet.value["label"] = Literal
    /\ Len(outputsRet.value["endpoint"].v) = 2
    /\ {outputsRet.value["endpoint"].v[j] : j \in 1..2} = {PyStr("10.0.0.2"), PyNone}
    /\ json_loads(files["i2"]).runtime_properties = RP_ip
    /\ \E i \in {"i1", "i3"} :
         json_loads(files[i]).runtime_properties.v # {}
         /\ json_loads(files[i]).runtime_properties.t = "dict"
         /\ \A item \in json_loads(files[i]).runtime_properties.v : item.k # PyStr("ip")

\* C13: update_node_instance and get_node_instance with an id that is not
\* in the store raise the error of _get_node_instance ('Instance ... does
\* not exist', a RuntimeError) on the memory store and on the file store,
\* and such a call leaves every stored instance and the locks as they were.
C13_UnknownIdNotFound ==
    /\ [](
         (/\ seqCall.op \in {"update_node_instance", "get_node_instance"}
          /\ seqCall.node_instance_id = UnknownId)
         => \A s \in Backends : readVal[s] = ValueOf(Raised("RuntimeError")))
    /\ [][(/\ nsteps' = nsteps + 1
           /\ seqCall'.op \in {"update_node_instance", "get_node_instance"}
           /\ seqCall'.node_instance_id = UnknownId)
          => UNCHANGED <<node_instances, files, locks>>]_vars

\* C14: in every execute the implementation is called at most once, and
\* only when the workflow was found, its operation resolved and the
\* parameters passed validation; an execute of a workflow name that is not
\* in the plan raises the error of lines 117-120 without reaching the
\* resolution, the merge or the call, and no step of execute changes a
\* stored instance.
C14_InvokedOnceAfterValidation ==
    /\ [](/\ execInvoked <= 1
          /\ Len(invocations) <= nexecs
          /\ execInvoked = 1 =>
               /\ execPc = "done"
               /\ execCall.workflow \in DOMAIN workflows
               /\ workflows[execCall.workflow].operation = OpGood
               /\ ExecMissing = {}
               /\ execCall.allow_custom_parameters \/ ExecCustom = {}
          /\ execPc = "done" => execInvoked = 1
          /\ (execPc \notin {"idle", "lookup"}
              /\ execCall.workflow \notin DOMAIN workflows) =>
               /\ execPc = "failed"
               /\ execError = ExecError("ValueError", "not_found",
                                        {execCall.workflow})
               /\ execInvoked = 0)
    /\ [][/\ UNCHANGED <<node_instances, files, locks, nodes>>
          /\ Len(invocations') <= Len(invocations) + 1
          /\ invocations' # invocations => execPc = "invoke"]_vars

\* C14 witness: after an execute that called the implementation, an execute
\* of an unknown workflow name has failed and called nothing.
C14_Witness ==
    /\ execPc = "failed"
    /\ execCall.workflow = "nope"
    /\ execError.what = "not_found"
    /\ Len(invocations) = 1
    /\ nexecs = 2
    /\ execInvoked = 0

(***************************************************************************)
(* Serial order of the updates of one instance (Spec).                     *)
(***************************************************************************)

\* What a store gives back for an instance it was handed.
Persisted(x) == IF backend = "memory" THEN x ELSE json_loads(json_dumps(x))

\* Thread t runs update_node_instance on a stored instance.
Updating(t) ==
    /\ call[t].op = "update_node_instance"
    /\ call[t].node_instance_id \in DOMAIN locks

\* The update of thread t run alone on the instance as it was stored when t
\* took the lock.
SerialConflict(t) == VersionConflict(snap[t], call[t].version, call[t].state)
SerialInstance(t) ==
    Persisted(SetState(SetRuntimeProperties(IncrementVersion(snap[t]),
                                            call[t].runtime_properties),
                       call[t].state))

\* C15: every update_node_instance ends as if it had run alone at the
\* moment it took the instance's lock: it raises StorageConflictError and
\* leaves the instance as the previous holder of the lock left it, or it
\* returns and the stored instance is that instance with the update applied;
\* the stored instance changes only in steps of an update of that instance
\* that holds its lock, so updates of other instances have no part in it.
C15_SerializedInLockOrder ==
    /\ [](\A t \in Threads : Updating(t) =>
            /\ pc[t] = "update_unlock" =>
                 IF SerialConflict(t)
                 THEN /\ exc[t] = "StorageConflictError"
                      /\ Stored(call[t].node_instance_id) = snap[t]
                 ELSE /\ exc[t] = "none"
                      /\ Stored(call[t].node_instance_id) = SerialInstance(t)
            /\ pc[t] = "returned" =>
                 result[t] = IF SerialConflict(t)
                             THEN Raised("StorageConflictError")
                             ELSE Returned({}))
    /\ [][\A i \in InstanceIds :
            Stored(i)' # Stored(i) =>
              \E t \in Threads :
                /\ locks[i].owner = t
                /\ Updating(t)
                /\ call[t].node_instance_id = i
                /\ pc'[t] # pc[t]]_vars

\* C15 witness: two updates of i1 with version 0, while a third party's
\* instance i2 is untouched: thread 1 has returned, and thread 2, which took
\* the lock after it, found version 1 and is leaving with the conflict.
C15_Witness ==
    /\ Updating(1) /\ Updating(2)
    /\ call[1].node_instance_id = "i1" /\ call[2].node_instance_id = "i1"
    /\ call[1].version = 0 /\ call[2].version = 0
    /\ pc[1] = "returned" /\ result[1] = Returned({})
    /\ pc[2] = "update_unlock" /\ exc[2] = "StorageConflictError"
    /\ snap[2].version = 1
    /\ Stored("i1") = snap[2]
    /\ Stored("i2") = PlanInstance("i2")

(***************************************************************************)
(* A caller that reloads and resubmits after a conflict (SpecRetry).       *)
(* Thread 1 reads instance i1, submits a property-only update with the     *)
(* version it read, and starts over when the update raises                 *)
(* StorageConflictError; the other threads issue MaxCalls calls on i1.     *)
(***************************************************************************)
Retrier == 1
RetryId == "i1"
OtherCalls ==
    {GetCall(RetryId)}
    \cup {UpdateCall(RetryId, v, RP_ports, NoState) : v \in VersionArgs}
    \cup {UpdateCall(RetryId, 0, NoProps, Started)}

InitRetry ==
    /\ \E b \in Backends : InitStore(b)
    /\ InitThreads
    /\ InitSeq
    /\ InitEnv
    /\ InitExec
    /\ plan_outputs = <<>>
    /\ outputsRet = NoOutputs
    /\ retry = [phase |-> "read", id |-> RetryId, version |-> 0, conflicts |-> 0]
    /\ fs = NoFs

\* The caller issues the next call of its loop.
RetryCall ==
    /\ pc[Retrier] = "idle"
    /\ retry.phase \in {"read", "update"}
    /\ LET c == IF retry.phase = "read" THEN GetCall(retry.id)
                ELSE UpdateCall(retry.id, retry.version, RP_ip, NoState)
       IN /\ call' = [call EXCEPT ![Retrier] = c]
          /\ pc' = [pc EXCEPT ![Retrier] = Entry(c.op)]
    /\ UNCHANGED <<storeVars, instance, exc, todo, result, historyVars, seqVars,
                   envVars, execVars, outVars, retry, fsVars, copyVars>>

\* The caller has the outcome: the version of the instance it read, the
\* success of its update, or the conflict that sends it back to reading.  An
\* exception of get_node_instance ends its loop.
RetryReturn ==
    /\ pc[Retrier] = "returned"
    /\ retry' =
         IF call[Retrier].op = "get_node_instance"
         THEN IF result[Retrier].kind = "return"
              THEN [retry EXCEPT
                      !.phase = "update",
                      !.version =
                         (CHOOSE h \in result[Retrier].val : TRUE).val.version]
              ELSE [retry EXCEPT !.phase = "failed"]
         ELSE IF result[Retrier] = Returned({})
         THEN [retry EXCEPT !.phase = "succeeded"]
         ELSE [retry EXCEPT !.phase = "read", !.conflicts = @ + 1]
    /\ pc' = [pc EXCEPT ![Retrier] = "idle"]
    /\ call' = [call EXCEPT ![Retrier] = NoCall]
    /\ result' = [result EXCEPT ![Retrier] = NoResult]
    /\ snap' = [snap EXCEPT ![Retrier] = NoInstance]
    /\ UNCHANGED <<storeVars, instance, exc, todo, done, ncalls, race, raceLog,
                   past, seqVars, envVars, execVars, outVars, fsVars, copyVars>>

\* Another thread issues one of its calls.
OtherCall(t) ==
    /\ t # Retrier
    /\ pc[t] = "idle"
    /\ ncalls < MaxCalls
    /\ \E c \in OtherCalls :
         /\ call' = [call EXCEPT ![t] = c]
         /\ pc' = [pc EXCEPT ![t] = Entry(c.op)]
    /\ ncalls' = ncalls + 1
    /\ UNCHANGED <<storeVars, instance, exc, todo, result, snap, done, race,
                   raceLog, past, restVars>>

\* The steps of the code a thread is in.
Steps(t) ==
    \/ UpdateLock(t)
    \/ UpdateLoad(t)
    \/ LoadLock(t)
    \/ LoadRead(t)
    \/ UpdateCheck(t)
    \/ UpdateProps(t)
    \/ UpdateState(t)
    \/ StoreLock(t)
    \/ StoreWrite(t)
    \/ UpdateUnlock(t)
    \/ GetMemory(t)
    \/ CopyKey(t)

NextRetry ==
    \/ RetryCall
    \/ RetryReturn
    \/ \E t \in Threads \ {Retrier} : OtherCall(t)
    \/ \E t \in Threads \ {Retrier} : Return(t)
    \/ \E t \in Threads : Steps(t)

\* Fair scheduling: a thread that can take a step of its code does, and the
\* caller goes on with its loop.
SpecRetry ==
    /\ InitRetry
    /\ [][NextRetry]_vars
    /\ \A t \in Threads : WF_vars(Steps(t))
    /\ WF_vars(RetryCall)
    /\ WF_vars(RetryReturn)
    /\ \A t \in Threads \ {Retrier} : WF_vars(Return(t))

\* C16: the caller that reloads and resubmits after every conflict gets its
\* update through in the end, the other threads issuing finitely many calls
\* and the scheduling being fair; and when its update, submitted with the
\* version it read, raises the conflict, more updates of the instance have
\* completed than the version it read, so one completed after the read.
C16_RetrySucceeds ==
    /\ <>(retry.phase = "succeeded")
    /\ [](/\ (retry.phase = "update" /\ pc[Retrier] = "update_unlock"
              /\ exc[Retrier] = "StorageConflictError")
             => done[retry.id] > retry.version
          /\ (retry.phase = "update" /\ pc[Retrier] = "update_unlock"
              /\ done[retry.id] = retry.version)
             => exc[Retrier] = "none"
          /\ retry.conflicts <= MaxCalls)

(***************************************************************************)
(* Progress of the calls under fair scheduling (SpecFair).                 *)
(***************************************************************************)
AllSteps(t) ==
    \/ Steps(t)
    \/ GetAllMemory(t)
    \/ GetAllIds(t)
    \/ Return(t)

SpecFair == Spec /\ \A t \in Threads : WF_vars(AllSteps(t))

\* The lock thread t is about to acquire.
WantedLock(t) ==
    IF pc[t] = "update_lock" THEN call[t].node_instance_id
    ELSE IF pc[t] = "load_lock" THEN LoadId(t)
    ELSE instance[t].id
Blocked(t) ==
    /\ pc[t] \in {"update_lock", "load_lock", "store_lock"}
    /\ WantedLock(t) \in DOMAIN locks
    /\ ~CanAcquire(locks[WantedLock(t)], t)

\* C17: no deadlock and no lock left behind.  A thread that waits for a
\* lock waits for a thread that is itself not waiting; inside an update the
\* acquisitions of FileStorage._load_instance and _store_instance find the
\* lock owned by the same thread and do not wait; a thread outside a call
\* owns no lock, and a lock without owner has count 0; and under fair
\* scheduling every call comes to its return or its exception.
C17_NoDeadlockAllCallsEnd ==
    /\ [](\A t \in Threads :
            /\ Blocked(t) =>
                 \E u \in Threads \ {t} :
                   /\ locks[WantedLock(t)].owner = u
                   /\ ~Blocked(u)
                   /\ pc[u] \notin {"idle", "returned"}
            /\ (pc[t] \in {"load_lock", "store_lock"}
                /\ call[t].op = "update_node_instance") =>
                 /\ locks[WantedLock(t)] = [owner |-> t, count |-> 1]
                 /\ ~Blocked(t)
            /\ pc[t] \in {"idle", "returned"} =>
                 \A i \in DOMAIN locks : locks[i].owner # t
            /\ \A i \in DOMAIN locks :
                 locks[i].owner = NoThread <=> locks[i].count = 0)
    /\ \A t \in Threads :
         (pc[t] \notin {"idle", "returned"}) ~> (pc[t] = "returned")

\* C17 witness: on the file backend thread 1 is inside _store_instance with
\* the lock of i1 acquired twice, and thread 2 waits for that lock.
C17_Witness ==
    /\ backend = "file"
    /\ pc[1] = "store_write"
    /\ locks["i1"] = [owner |-> 1, count |-> 2]
    /\ pc[2] = "update_lock"
    /\ call[2].node_instance_id = "i1"
    /\ Blocked(2)

(***************************************************************************)
(* FileStorage.__init__ on a storage directory that a prior store may have *)
(* left behind (SpecFile), followed by a read of all instances.            *)
(***************************************************************************)

\* What a prior store may have left of an instance.
PriorInstances(i) ==
    {PlanInstance(i),
     [PlanInstance(i) EXCEPT !.version = 1, !.runtime_properties = RP_ip],
     [PlanInstance(i) EXCEPT !.version = 2, !.runtime_properties = RP_ports,
                             !.state = Started]}
PriorDisks ==
    {[storage_dir |-> FALSE, instances_dir |-> FALSE, files |-> <<>>],
     [storage_dir |-> TRUE, instances_dir |-> FALSE, files |-> <<>>]}
    \cup UNION {{[storage_dir |-> TRUE, instances_dir |-> TRUE,
                  files |-> [i \in ids |-> json_dumps(f[i])]] :
                   f \in {g \in [ids -> UNION {PriorInstances(i) : i \in ids}] :
                            \A i \in ids : g[i] \in PriorInstances(i)}} :
                  ids \in {InstanceIds, {"i1"}}}

\* Line 344: the directory is removed when it is there and clear is set.
ShouldClearNever(storage_dir, clear) == FALSE
ShouldClear(storage_dir, clear) == storage_dir /\ clear

InitFile ==
    /\ backend = "file"
    /\ node_instances = <<>>
    /\ locks = <<>>
    /\ nodes = <<>>
    /\ InitThreads
    /\ InitSeq
    /\ InitEnv
    /\ InitExec
    /\ plan_outputs = <<>>
    /\ outputsRet = NoOutputs
    /\ retry = NoRetry
    /\ \E d \in PriorDisks, c \in BOOLEAN :
         /\ files = d.files
         /\ fs = [pc |-> "clear", storage_dir |-> d.storage_dir,
                  instances_dir |-> d.instances_dir, clear |-> c, prior |-> d,
                  writes |-> [i \in InstanceIds |-> 0], read |-> NoResult]

fileRest == <<threadVars, historyVars, seqVars, envVars, execVars, outVars,
              retryVars, copyVars>>

\* Lines 341-345.
FsClear ==
    /\ fs.pc = "clear"
    /\ IF ShouldClear(fs.storage_dir, fs.clear)
       THEN /\ files' = <<>>
            /\ fs' = [fs EXCEPT !.pc = "super", !.storage_dir = FALSE,
                                !.instances_dir = FALSE]
       ELSE /\ fs' = [fs EXCEPT !.pc = "super"]
            /\ UNCHANGED files
    /\ UNCHANGED <<backend, node_instances, locks, nodes, fileRest>>

\* Lines 346-349, Storage.__init__: the nodes and the instances of the plan
\* at version 0, and one lock for each of self._instance_ids(), lines
\* 384-390: the directory's entries when it is there, else the plan's ids.
FsSuper ==
    /\ fs.pc = "super"
    /\ nodes' = [s \in Backends |-> [n \in NodeIds |-> PlanNode(n)]]
    /\ node_instances' = [i \in InstanceIds |-> PlanInstance(i)]
    /\ locks' = [i \in IF fs.instances_dir THEN DOMAIN files ELSE InstanceIds
                   |-> RLock]
    /\ fs' = [fs EXCEPT !.pc = "dirs"]
    /\ UNCHANGED <<backend, files, fileRest>>

\* Lines 350-353: the directories are made when they are missing.
FsMakeDirs ==
    /\ fs.pc = "dirs"
    /\ fs' = [fs EXCEPT !.storage_dir = TRUE, !.instances_dir = TRUE,
                        !.pc = IF fs.instances_dir THEN "drop" ELSE "write"]
    /\ UNCHANGED <<storeVars, fileRest>>

\* Lines 354-355: one instance of self._node_instances is written, until
\* each has been.
FsWrite ==
    /\ fs.pc = "write"
    /\ \E i \in DOMAIN node_instances \ DOMAIN files :
         /\ files' = [j \in DOMAIN files \cup {i} |->
                        IF j = i THEN json_dumps(node_instances[i]) ELSE files[j]]
         /\ fs' = [fs EXCEPT !.writes[i] = @ + 1,
                             !.pc = IF DOMAIN files \cup {i} = DOMAIN node_instances
                                    THEN "drop" ELSE "write"]
    /\ UNCHANGED <<backend, node_instances, locks, nodes, fileRest>>

\* Line 356.
FsDrop ==
    /\ fs.pc = "drop"
    /\ node_instances' = <<>>
    /\ fs' = [fs EXCEPT !.pc = "constructed"]
    /\ UNCHANGED <<backend, files, locks, nodes, fileRest>>

\* get_node_instances() on the new store.
FsRead ==
    /\ fs.pc = "constructed"
    /\ fs.read = NoResult
    /\ fs' = [fs EXCEPT !.read = ValueOf(GetNodeInstancesOutcome("file"))]
    /\ UNCHANGED <<storeVars, fileRest>>

NextFile ==
    \/ FsClear
    \/ FsSuper
    \/ FsMakeDirs
    \/ FsWrite
    \/ FsDrop
    \/ FsRead

SpecFile == InitFile /\ [][NextFile]_vars

\* C18: once a FileStorage is constructed, if the instances directory was
\* there and clear was not set, nothing was written, the files are those
\* the prior store left and a read returns their instances, versions
\* included; otherwise every instance of the plan was written once and a
\* read returns the plan's instances at version 0.
C18_FileStoreConstruction ==
    fs.pc = "constructed" =>
      IF fs.prior.instances_dir /\ ~fs.clear
      THEN /\ \A i \in InstanceIds : fs.writes[i] = 0
           /\ files = fs.prior.files
           /\ fs.read # NoResult =>
                fs.read = [kind |-> "return",
                           val |-> {json_loads(fs.prior.files[i]) :
                                      i \in DOMAIN fs.prior.files}]
      ELSE /\ \A i \in InstanceIds : fs.writes[i] = 1
           /\ DOMAIN files = InstanceIds
           /\ fs.read # NoResult =>
                fs.read = [kind |-> "return",
                           val |-> {PlanInstance(i) : i \in InstanceIds}]

\* C18 witness: a store constructed without clear on the directory of a
\* prior store has returned an instance at version 2.
C18_Witness ==
    /\ fs.pc = "constructed"
    /\ fs.prior.instances_dir
    /\ ~fs.clear
    /\ fs.read # NoResult
    /\ \E x \in fs.read.val : x.version = 2 /\ x.state = Started

\* C19: an update_node_instance of instance i that returns leaves, on each
\* store, i's runtime properties equal to the mapping supplied, or as they
\* were when none was supplied, i's state equal to the state supplied, or as
\* it was when none was supplied, and i's id and node_id, every other
\* instance, the nodes and the set of instance ids as they were.
C19_UpdateFrame ==
    [][(nsteps' = nsteps + 1 /\ seqCall'.op = "update_node_instance") =>
         \A s \in Backends :
           ret'[s] = Returned({}) =>
             LET c == seqCall'
                 i == c.node_instance_id
                 before == StoredIn(s)
                 after == StoredIn(s)'
             IN
             /\ after[i].runtime_properties =
                  IF c.runtime_properties # NoProps THEN c.runtime_properties
                  ELSE before[i].runtime_properties
             /\ after[i].state =
                  IF c.state # NoState THEN c.state ELSE before[i].state
             /\ after[i].id = before[i].id
             /\ after[i].node_id = before[i].node_id
             /\ DOMAIN after = DOMAIN before
             /\ \A j \in DOMAIN before \ {i} : after[j] = before[j]
             /\ nodes' = nodes]_vars

\* The states of instance i a read may return: the stored one when no
\* update of i holds its lock; else the one stored when the update took the
\* lock and, for an accepted update, the one it is about to leave.
BetweenUpdates(i) ==
    LET holders == {u \in Threads : Updating(u) /\ call[u].node_instance_id = i
                                    /\ locks[i].owner = u}
    IN IF holders = {} THEN {Stored(i)}
       ELSE UNION {{snap[u]} \cup (IF SerialConflict(u) THEN {}
                                   ELSE {SerialInstance(u)}) : u \in holders}

\* C20: every instance that get_node_instance or get_node_instances returns,
\* on the memory backend and on the file backend, is a state the instance
\* had between two updates (the plan's, or the one an update left or is
\* about to leave), never the incremented version next to the runtime
\* properties or the state of before the update.
C20_ReadsSeeWholeUpdates ==
    [][\A t \in Threads :
         (call[t].op \in {"get_node_instance", "get_node_instances"}
          /\ result'[t].kind = "return") =>
           \A h \in result'[t].val \ result[t].val :
             h.val \in past[h.id] \cup BetweenUpdates(h.id)]_vars

====
